---------------------------- MODULE Spec2Model ----------------------------
(***************************************************************************)
(* A model of w3stringsx (src/src/w3stringsx.py): the CSV string-table     *)
(* document model.  Text is modelled character by character: a string is   *)
(* a sequence of one-character strings, a text file is the sequence of the *)
(* pieces between its newline characters.                                  *)
(***************************************************************************)
EXTENDS Integers, Sequences, FiniteSets, TLC

(***************************************************************************)
(* Strings                                                                 *)
(***************************************************************************)

\* the characters str.strip() removes, as far as the modelled files hold them
Whitespace == {" "}

Digits == <<"0", "1", "2", "3", "4", "5", "6", "7", "8", "9">>

Min(a, b) == IF a <= b THEN a ELSE b

Last(s) == s[Len(s)]

Front(s) == SubSeq(s, 1, Len(s) - 1)

RECURSIVE LStrip(_)
LStrip(s) ==
    IF s # <<>> /\ Head(s) \in Whitespace THEN LStrip(Tail(s)) ELSE s

RECURSIVE RStrip(_)
RStrip(s) ==
    IF s # <<>> /\ Last(s) \in Whitespace THEN RStrip(Front(s)) ELSE s

\* str.strip()
Strip(s) == RStrip(LStrip(s))

\* str.split(d): the fields between the occurrences of the character d
RECURSIVE Split(_, _)
Split(s, d) ==
    IF s = <<>> THEN << <<>> >>
    ELSE LET rest == Split(Tail(s), d)
         IN  IF Head(s) = d
             THEN << <<>> >> \o rest
             ELSE << <<Head(s)>> \o Head(rest) >> \o Tail(rest)

\* d.join(parts)
RECURSIVE Join(_, _)
Join(parts, d) ==
    IF parts = <<>> THEN <<>>
    ELSE IF Len(parts) = 1 THEN parts[1]
    ELSE parts[1] \o <<d>> \o Join(Tail(parts), d)

\* str.count(c)
Count(s, c) == Cardinality({i \in 1..Len(s) : s[i] = c})

\* str.rjust(w, ' ')
RJust(s, w) ==
    IF Len(s) >= w THEN s ELSE [i \in 1..(w - Len(s)) |-> " "] \o s

DigitValue(c) == (CHOOSE i \in 1..10 : Digits[i] = c) - 1

IsDigit(c) == \E i \in 1..10 : Digits[i] = c

RECURSIVE NatOfDigits(_)
NatOfDigits(s) ==
    IF s = <<>> THEN 0 ELSE NatOfDigits(Front(s)) * 10 + DigitValue(Last(s))

\* int(s): surrounding whitespace and one sign are accepted, then only
\* decimal digits; anything else is a ValueError (ok = FALSE)
ParseInt(s) ==
    LET t == Strip(s)
        signed == t # <<>> /\ Head(t) \in {"-", "+"}
        body == IF signed THEN Tail(t) ELSE t
        ok == body # <<>> /\ \A i \in 1..Len(body) : IsDigit(body[i])
    IN  [ok |-> ok,
         val |-> IF ~ok THEN 0
                 ELSE IF signed /\ Head(t) = "-" THEN 0 - NatOfDigits(body)
                 ELSE NatOfDigits(body)]

RECURSIVE NatStr(_)
NatStr(n) ==
    IF n < 10 THEN <<Digits[n + 1]>>
    ELSE NatStr(n \div 10) \o <<Digits[(n % 10) + 1]>>

\* str(n) of an int
IntStr(n) == IF n < 0 THEN <<"-">> \o NatStr(0 - n) ELSE NatStr(n)

(***************************************************************************)
(* Constants of the program                                                *)
(***************************************************************************)

COMMENT_SECTION_MENU == <<"m", "e", "n", "u">>
COMMENT_SECTION_BUNDLE == <<"b", "u", "n", "d", "l", "e">>
COMMENT_SECTION_SCRIPTS == <<"s", "c", "r", "i", "p", "t", "s">>

\* the attribute key of a section marker
SECTION_KEY == <<"s", "e", "c", "t", "i", "o", "n">>

\* the default text of CsvAbbreviatedEntry
MISSING_LOCALISATION ==
    <<"M", "I", "S", "S", "I", "N", "G", "_",
      "L", "O", "C", "A", "L", "I", "S", "A", "T", "I", "O", "N">>

(***************************************************************************)
(* Records and lines                                                       *)
(***************************************************************************)

\* a plain comment or an empty line
PlainLine(s) == [tag |-> "str", s |-> s]

CsvCommentAttribute(key, value) == [tag |-> "attr", key |-> key, value |-> value]

CsvAbbreviatedEntry(key_str, text) ==
    [tag |-> "abbrev", key_str |-> key_str, text |-> text]

CsvCompleteEntry(id, key_hex, key_str, text) ==
    [tag |-> "complete", id |-> id, key_hex |-> key_hex,
     key_str |-> key_str, text |-> text]

ParseError(what, got) == [tag |-> "error", what |-> what, got |-> got]

CsvAbbreviatedEntry_str(e) == e.key_str \o <<"|">> \o e.text

CsvCompleteEntry_str(e) ==
    Join(<<RJust(IntStr(e.id), 10), RJust(e.key_hex, 8), e.key_str, e.text>>, "|")

CsvCommentAttribute_str(e) == <<";">> \o e.key \o <<"=">> \o e.value

\* str(line) of an element of the line buffer
line_str(e) ==
    CASE e.tag = "str" -> e.s
      [] e.tag = "attr" -> CsvCommentAttribute_str(e)
      [] e.tag = "abbrev" -> CsvAbbreviatedEntry_str(e)
      [] e.tag = "complete" -> CsvCompleteEntry_str(e)

\* a slip of parse_entry: a line of more than four fields is read as a
\* complete entry of its first four
parse_entry_lenient(line) ==
    LET s == Strip(line)
    IN  IF Len(s) = 0 THEN PlainLine(s)
        ELSE IF Head(s) = ";"
        THEN LET attrib == Split(Tail(s), "=")
             IN  IF Len(attrib) = 2 /\ Count(attrib[1], " ") = 0
                 THEN CsvCommentAttribute(attrib[1], attrib[2])
                 ELSE PlainLine(s)
        ELSE LET split == Split(s, "|")
             IN  IF Len(split) = 2
                 THEN CsvAbbreviatedEntry(split[1], split[2])
                 ELSE IF Len(split) >= 4
                 THEN LET id == ParseInt(split[1])
                      IN  IF id.ok
                          THEN CsvCompleteEntry(id.val, split[2], split[3], split[4])
                          ELSE ParseError("id", 4)
                 ELSE ParseError("columns", Len(split))

\* parse_entry(s): the entry a line of a CSV file stands for
parse_entry(line) ==
    LET s == Strip(line)
    IN  IF Len(s) = 0 THEN PlainLine(s)
        ELSE IF Head(s) = ";"
        THEN LET attrib == Split(Tail(s), "=")
             IN  IF Len(attrib) = 2 /\ Count(attrib[1], " ") = 0
                 THEN CsvCommentAttribute(attrib[1], attrib[2])
                 ELSE PlainLine(s)
        ELSE LET split == Split(s, "|")
             IN  IF Len(split) = 2
                 THEN CsvAbbreviatedEntry(split[1], split[2])
                 ELSE IF Len(split) = 4
                 THEN LET id == ParseInt(split[1])
                      IN  IF id.ok
                          THEN CsvCompleteEntry(id.val, split[2], split[3], split[4])
                          ELSE ParseError("id", 4)
                 ELSE ParseError("columns", Len(split))

IsRecord(e) == e.tag \in {"abbrev", "complete"}

IsSectionMarker(e) == e.tag = "attr" /\ e.key = SECTION_KEY

(***************************************************************************)
(* Text files: the pieces between the newlines of the file's text.  A      *)
(* file's text always has at least one piece (the empty text has one empty *)
(* piece).                                                                 *)
(***************************************************************************)

\* iterating a text file: a text that ends with a newline has no last line
read_lines(text) == IF Last(text) = <<>> THEN Front(text) ELSE text

\* f.write('\n'.join(lines))
write_lines(lines) == IF lines = <<>> THEN << <<>> >> ELSE lines

(***************************************************************************)
(* The merge engine: CsvMergingDocument and merge_abbreviated_entries      *)
(***************************************************************************)

\* a slip of ListInsert: lst[idx:idx + len(items)] = items, which replaces
ListOverwrite(lst, idx, items) ==
    LET k == Min(idx, Len(lst))
    IN  SubSeq(lst, 1, k) \o items \o SubSeq(lst, k + Len(items) + 1, Len(lst))

\* lst[idx:idx] = items, with the 0-based idx of the code
ListInsert(lst, idx, items) ==
    LET k == Min(idx, Len(lst))
    IN  SubSeq(lst, 1, k) \o items \o SubSeq(lst, k + 1, Len(lst))

\* the indexes (1-based) of the entries of self.sections named target
SectionHits(secs, target) == {i \in 1..Len(secs) : secs[i][1] = target}

\* a slip of section_range: the range of a new section ends at its marker
section_range_before_marker(lines, secs, target) ==
    IF SectionHits(secs, target) # {}
    THEN LET i == CHOOSE j \in SectionHits(secs, target) :
                      \A h \in SectionHits(secs, target) : j <= h
         IN  [file_lines |-> lines,
              sections |-> secs,
              start |-> secs[i][2] + 1,
              stop |-> IF i = Len(secs) THEN Len(lines) ELSE secs[i + 1][2]]
    ELSE LET appended == Append(lines, CsvCommentAttribute(SECTION_KEY, target))
             section_line_idx == Len(appended) - 1
         IN  [file_lines |-> appended,
              sections |-> Append(secs, <<target, section_line_idx>>),
              start |-> section_line_idx,
              stop |-> section_line_idx]

\* section_range: the range of the target section, the marker appended when
\* the section is new.  Line indexes are 0-based, as in the code.
section_range(lines, secs, target) ==
    IF SectionHits(secs, target) # {}
    THEN LET i == CHOOSE j \in SectionHits(secs, target) :
                      \A h \in SectionHits(secs, target) : j <= h
         IN  [file_lines |-> lines,
              sections |-> secs,
              start |-> secs[i][2] + 1,
              stop |-> IF i = Len(secs) THEN Len(lines) ELSE secs[i + 1][2]]
    ELSE LET appended == Append(lines, CsvCommentAttribute(SECTION_KEY, target))
             section_line_idx == Len(appended) - 1
         IN  [file_lines |-> appended,
              sections |-> Append(secs, <<target, section_line_idx>>),
              start |-> section_line_idx + 1,
              stop |-> Len(appended)]

\* the candidates insert_entries keeps: those whose key is not in str_keys
filter_entries(cands, keys) ==
    SelectSeq(cands, LAMBDA e : e.key_str \notin keys)

insert_entries(lines, secs, keys, cands, target) ==
    LET kept == filter_entries(cands, keys)
        r == section_range(lines, secs, target)
    IN  [file_lines |-> ListInsert(r.file_lines, r.stop, kept),
         sections |-> r.sections,
         str_keys |-> keys]

\* CsvMergingDocument.__init__: every line parsed, the first failure raised
\* with the index enumerate() gave the line
\* the second half of CsvMergingDocument.__init__, given the parsed lines
ParsedDocument(parsed) ==
    LET bad == {i \in 1..Len(parsed) : parsed[i].tag = "error"}
    IN  IF bad # {}
        THEN [ok |-> FALSE,
              error_line |-> (CHOOSE i \in bad : \A j \in bad : i <= j) - 1]
        ELSE [ok |-> TRUE,
              file_lines |-> parsed,
              sections |->
                  LET marks == SelectSeq([i \in 1..Len(parsed) |-> i],
                                         LAMBDA i : IsSectionMarker(parsed[i]))
                  IN  [n \in 1..Len(marks) |->
                          <<parsed[marks[n]].value, marks[n] - 1>>],
              str_keys |-> {parsed[i].key_str :
                              i \in {j \in 1..Len(parsed) : IsRecord(parsed[j])}}]

CsvMergingDocument_init(text) ==
    ParsedDocument([i \in 1..Len(read_lines(text)) |-> parse_entry(read_lines(text)[i])])

\* CsvMergingDocument.save: the text written to the file
save_text(lines) == write_lines([i \in 1..Len(lines) |-> line_str(lines[i])])

(***************************************************************************)
(* The input document: CsvInputDocument                                    *)
(***************************************************************************)

\* an optional value is the empty set (None) or the set of the value
None == {}

Some(v) == {v}

The(opt) == CHOOSE v \in opt : TRUE

ALL_LANGS ==
    << <<"a", "r">>, <<"b", "r">>, <<"c", "n">>, <<"c", "z">>, <<"d", "e">>,
       <<"e", "n">>, <<"e", "s">>, <<"e", "s", "m", "x">>, <<"f", "r">>,
       <<"h", "u">>, <<"i", "t">>, <<"j", "p">>, <<"k", "r">>, <<"p", "l">>,
       <<"r", "u">>, <<"t", "r">>, <<"z", "h">> >>

CLEARTEXT == <<"c", "l", "e", "a", "r", "t", "e", "x", "t">>

\* ALL_LANGS_META[lang]
ALL_LANGS_META(lang) ==
    IF lang \in { <<"a", "r">>, <<"b", "r">>, <<"c", "n">>, <<"e", "s", "m", "x">>,
                  <<"k", "r">>, <<"t", "r">> }
    THEN CLEARTEXT
    ELSE lang

\* ALL_LANGS_META.values()
ALL_LANGS_META_values == {ALL_LANGS_META(ALL_LANGS[i]) : i \in 1..Len(ALL_LANGS)}

EN == <<"e", "n">>

META_LANGUAGE_KEY == <<"m", "e", "t", "a", "[", "l", "a", "n", "g", "u", "a", "g", "e">>

IDSPACE_KEY == <<"i", "d", "s", "p", "a", "c", "e">>

\* MOD_ID_RANGE.start and MOD_ID_RANGE.stop
MOD_ID_RANGE_start == 2110000000
MOD_ID_RANGE_stop == 2120000000

\* the ids of one id space
ID_SPACE_SIZE == 1000

\* range(0, 10000): the id spaces a header may declare
ID_SPACE_COUNT == 10000

\* line.startswith(';')
IsCommentLine(line) == line # <<>> /\ Head(line) = ";"

\* str.replace(' ', '')
RemoveSpaces(s) == SelectSeq(s, LAMBDA c : c # " ")

\* the names of the file name before the extension: basename.split('.')[:-1]
basename_parts(basename) == Front(Split(basename, "."))

\* read_target_lang: the first part of the file name that is a language
read_target_lang(basename) ==
    LET parts == basename_parts(basename)
        hits == {i \in 1..Len(parts) : \E l \in 1..Len(ALL_LANGS) : ALL_LANGS[l] = parts[i]}
    IN  IF hits = {} THEN None
        ELSE Some(parts[CHOOSE i \in hits : \A j \in hits : i <= j])

\* a slip of id_space: the id is not tested against MOD_ID_RANGE
id_space_unchecked(id) == Some((id % MOD_ID_RANGE_start) \div ID_SPACE_SIZE)

\* CsvCompleteEntry.id_space: "vanilla" is the optional None here
id_space(id) ==
    IF id < MOD_ID_RANGE_start \/ id >= MOD_ID_RANGE_stop
    THEN None
    ELSE Some((id % MOD_ID_RANGE_start) \div ID_SPACE_SIZE)

\* one header attribute applied to the header read so far
read_header_attrib(attrib, st) ==
    IF attrib.tag # "attr" THEN st
    ELSE IF attrib.key = META_LANGUAGE_KEY
    THEN IF Front(attrib.value) \in ALL_LANGS_META_values
         THEN [st EXCEPT !.header_lang_meta = Some(Front(attrib.value))]
         ELSE [st EXCEPT !.ok = FALSE, !.error = "Invalid header language meta"]
    ELSE IF attrib.key = IDSPACE_KEY
    THEN IF ~ParseInt(attrib.value).ok
         THEN [st EXCEPT !.ok = FALSE,
                         !.error = "Failed to parse id space value into a number"]
         ELSE IF ParseInt(attrib.value).val \notin 0..(ID_SPACE_COUNT - 1)
         THEN [st EXCEPT !.ok = FALSE,
                         !.header_mod_id_space = Some(ParseInt(attrib.value).val),
                         !.error = "Id space value falls out of 0-9999 range"]
         ELSE [st EXCEPT !.header_mod_id_space = Some(ParseInt(attrib.value).val)]
    ELSE st

\* the loop of read_header over the leading comment lines, from line i
RECURSIVE read_header_loop(_, _, _)
read_header_loop(lines, i, st) ==
    IF ~st.ok \/ i > Len(lines) THEN st
    ELSE IF ~IsCommentLine(lines[i]) THEN st
    ELSE read_header_loop(lines, i + 1,
            read_header_attrib(parse_entry(RemoveSpaces(Strip(lines[i]))), st))

\* read_header, given the target language of the file name
read_header(lines, target_lang) ==
    read_header_loop(lines, 1,
        [ok |-> TRUE,
         error |-> "",
         header_lang_meta |->
            IF target_lang # None THEN Some(ALL_LANGS_META(The(target_lang))) ELSE None,
         header_mod_id_space |-> None])

\* a slip of header_target_lang: 'cleartext' is taken as a language too
header_target_lang_any(target_lang, header_lang_meta) ==
    IF target_lang = None /\ header_lang_meta # None
    THEN header_lang_meta
    ELSE target_lang

\* the target language after read_header: the language meta stands in when
\* the file name named no language
header_target_lang(target_lang, header_lang_meta) ==
    IF target_lang = None /\ header_lang_meta \notin {None, Some(CLEARTEXT)}
    THEN header_lang_meta
    ELSE target_lang

\* a slip of no_id_space_provided: a 0 is taken as no id space
no_id_space_provided_truthy(header_mod_id_space, content_mod_id_space, entries_abbrev) ==
    /\ header_mod_id_space \in {None, Some(0)}
    /\ content_mod_id_space \in {None, Some(0)}
    /\ Len(entries_abbrev) > 0

\* the last test of read_content_id_space: abbreviated entries and no id
\* space to complete them with
no_id_space_provided(header_mod_id_space, content_mod_id_space, entries_abbrev) ==
    /\ header_mod_id_space = None
    /\ content_mod_id_space = None
    /\ Len(entries_abbrev) > 0

\* a slip of read_content_id_space: of several id spaces the smallest is
\* taken as the one of the content
read_content_id_space_smallest(header_mod_id_space, entries_abbrev, entries_complete) ==
    LET mod_id_spaces == UNION {id_space(entries_complete[i].id) : i \in 1..Len(entries_complete)}
        content == IF mod_id_spaces = {} THEN None
                   ELSE Some(CHOOSE x \in mod_id_spaces : \A y \in mod_id_spaces : x <= y)
    IN  [has_vanilla_entries |->
            \E i \in 1..Len(entries_complete) : id_space(entries_complete[i].id) = None,
         content_mod_id_space |-> content,
         named_spaces |-> {},
         named_pair |->
            IF header_mod_id_space # None /\ content # None /\ header_mod_id_space # content
            THEN <<The(header_mod_id_space), The(content)>> ELSE <<>>,
         error |->
            IF header_mod_id_space # None /\ content # None /\ header_mod_id_space # content
            THEN "Id space in the header and id space used in the entries do not match"
            ELSE IF header_mod_id_space = None /\ content = None /\ Len(entries_abbrev) > 0
            THEN "No id space was provided to complete abbreviated entries"
            ELSE ""]

\* a slip of read_content_id_space: the header and the content are compared
\* when both are true values, so that a 0 is taken as undeclared
read_content_id_space_truthy(header_mod_id_space, entries_abbrev, entries_complete) ==
    LET id_spaces == {id_space(entries_complete[i].id) : i \in 1..Len(entries_complete)}
        mod_id_spaces == UNION id_spaces
        content == IF Cardinality(mod_id_spaces) = 1 THEN mod_id_spaces ELSE None
        both == header_mod_id_space \notin {None, Some(0)} /\ content \notin {None, Some(0)}
    IN  [has_vanilla_entries |-> None \in id_spaces,
         content_mod_id_space |-> content,
         named_spaces |-> IF Cardinality(mod_id_spaces) > 1 THEN mod_id_spaces ELSE {},
         named_pair |->
            IF both /\ header_mod_id_space # content
            THEN <<The(header_mod_id_space), The(content)>> ELSE <<>>,
         error |->
            IF Cardinality(mod_id_spaces) > 1
            THEN "There are entries for multiple mod id spaces"
            ELSE IF both /\ header_mod_id_space # content
            THEN "Id space in the header and id space used in the entries do not match"
            ELSE IF header_mod_id_space = None /\ content = None /\ Len(entries_abbrev) > 0
            THEN "No id space was provided to complete abbreviated entries"
            ELSE ""]

\* read_content_id_space, given the entries: the id space of the content,
\* the vanilla flag, and the checks against the header
read_content_id_space(header_mod_id_space, entries_abbrev, entries_complete) ==
    LET id_spaces == {id_space(entries_complete[i].id) : i \in 1..Len(entries_complete)}
        mod_id_spaces == UNION id_spaces
        content == IF Cardinality(mod_id_spaces) = 1 THEN mod_id_spaces ELSE None
    IN  [has_vanilla_entries |-> None \in id_spaces,
         content_mod_id_space |-> content,
         \* the set {mod_id_spaces} the first message prints
         named_spaces |-> IF Cardinality(mod_id_spaces) > 1 THEN mod_id_spaces ELSE {},
         \* the two values the second message prints
         named_pair |->
            IF Cardinality(mod_id_spaces) = 1 /\ header_mod_id_space # None
               /\ header_mod_id_space # content
            THEN <<The(header_mod_id_space), The(content)>>
            ELSE <<>>,
         error |->
            IF Cardinality(mod_id_spaces) > 1
            THEN "There are entries for multiple mod id spaces"
            ELSE IF header_mod_id_space # None /\ content # None
            THEN IF header_mod_id_space # content
                 THEN "Id space in the header and id space used in the entries do not match"
                 ELSE ""
            ELSE IF no_id_space_provided(header_mod_id_space, content, entries_abbrev)
            THEN "No id space was provided to complete abbreviated entries"
            ELSE ""]

\* a slip of duplicate_ids: every id that occurs more than once, listed once
duplicate_ids_once(entries_complete) ==
    LET ids == {entries_complete[n].id : n \in 1..Len(entries_complete)}
        twice == {id \in ids : Cardinality({n \in 1..Len(entries_complete) :
                                               entries_complete[n].id = id}) > 1}
    IN  IF twice = {} THEN <<>> ELSE <<CHOOSE id \in twice : TRUE>>

\* duplicate_ids of read_content: the entries whose id occurs more than once
duplicate_ids(entries_complete) ==
    SelectSeq(entries_complete,
              LAMBDA e : Cardinality({n \in 1..Len(entries_complete) :
                                        entries_complete[n].id = e.id}) > 1)

\* the numbers (0-based, as enumerate gives them) of the lines read_content
\* hands to parse_entry
ContentLineNumbers(lines) == {i \in 0..(Len(lines) - 1) : ~IsCommentLine(lines[i + 1])}

\* read_content, given the parse of every line
read_content(lines, parsed, header_mod_id_space) ==
    LET bad == {i \in ContentLineNumbers(lines) : parsed[i + 1].tag = "error"}
        content == SelectSeq([i \in 1..Len(lines) |-> i],
                             LAMBDA i : (i - 1) \in ContentLineNumbers(lines))
        abbrev_at == SelectSeq(content, LAMBDA i : parsed[i].tag = "abbrev")
        complete_at == SelectSeq(content, LAMBDA i : parsed[i].tag = "complete")
        entries_abbrev == [n \in 1..Len(abbrev_at) |-> parsed[abbrev_at[n]]]
        entries_complete == [n \in 1..Len(complete_at) |-> parsed[complete_at[n]]]
        spaces == read_content_id_space(header_mod_id_space, entries_abbrev,
                                        entries_complete)
        failed == [ok |-> FALSE, error_line |-> 0, error |-> "",
                   named_spaces |-> {}, named_pair |-> <<>>,
                   entries_abbrev |-> <<>>, entries_complete |-> <<>>,
                   content_mod_id_space |-> None, has_vanilla_entries |-> FALSE]
    IN  IF bad # {}
        THEN [failed EXCEPT !.error = "Failed to read line",
                            !.error_line = CHOOSE i \in bad : \A j \in bad : i <= j]
        ELSE IF Len(entries_abbrev) + Len(entries_complete) = 0
        THEN [failed EXCEPT !.error = "File has no data to encode"]
        ELSE IF Len(duplicate_ids(entries_complete)) > 1
        THEN [failed EXCEPT !.error = "There are multiple entries with the same id"]
        ELSE IF spaces.error # ""
        THEN [failed EXCEPT !.error = spaces.error,
                            !.named_spaces = spaces.named_spaces,
                            !.named_pair = spaces.named_pair]
        ELSE [ok |-> TRUE, error_line |-> 0, error |-> "",
              named_spaces |-> {}, named_pair |-> <<>>,
              entries_abbrev |-> entries_abbrev,
              entries_complete |-> entries_complete,
              content_mod_id_space |-> spaces.content_mod_id_space,
              has_vanilla_entries |-> spaces.has_vanilla_entries]

\* CsvInputDocument.__init__, given the header and the content read
InputDocumentOf(target_lang, header, content) ==
    IF ~header.ok
    THEN [ok |-> FALSE, stage |-> "header", error |-> header.error, error_line |-> 0,
          named_spaces |-> {}, named_pair |-> <<>>]
    ELSE IF ~content.ok
    THEN [ok |-> FALSE, stage |-> "content", error |-> content.error,
          error_line |-> content.error_line,
          named_spaces |-> content.named_spaces, named_pair |-> content.named_pair]
    ELSE [ok |-> TRUE,
          target_lang |-> header_target_lang(target_lang, header.header_lang_meta),
          header_lang_meta |-> header.header_lang_meta,
          header_mod_id_space |-> header.header_mod_id_space,
          entries_abbrev |-> content.entries_abbrev,
          entries_complete |-> content.entries_complete,
          content_mod_id_space |-> content.content_mod_id_space,
          has_vanilla_entries |-> content.has_vanilla_entries]

ReadContentOf(lines, header) ==
    read_content(lines, [i \in 1..Len(lines) |-> parse_entry(lines[i])],
                 header.header_mod_id_space)

InputDocumentOfLines(target_lang, lines) ==
    InputDocumentOf(target_lang, read_header(lines, target_lang),
                    ReadContentOf(lines, read_header(lines, target_lang)))

\* CsvInputDocument(file_path)
CsvInputDocument(basename, text) ==
    InputDocumentOfLines(read_target_lang(basename), read_lines(text))

(***************************************************************************)
(* The output document: prepare_output_csv                                 *)
(***************************************************************************)

\* a or b on optional numbers: None and 0 are false
PyOr(a, b) == IF a # None /\ a # Some(0) THEN a ELSE b

\* a or b on optional strings: None and '' are false
PyOrStr(a, b) == IF a # None /\ a # Some(<<>>) THEN a ELSE b

\* a slip of skip_used: the ids of the complete entries are not looked at
skip_nothing(id_set, id_counter) == [id_set |-> id_set, id_counter |-> id_counter]

\* the while loop of prepare_output_csv: the counter moved past the ids of
\* id_set (each removed from the set as it is passed)
RECURSIVE skip_used(_, _)
skip_used(id_set, id_counter) ==
    IF id_counter \in id_set
    THEN skip_used(id_set \ {id_counter}, id_counter + 1)
    ELSE [id_set |-> id_set, id_counter |-> id_counter]

\* the for loop of prepare_output_csv: the ids given to n abbreviated
\* entries, in order
RECURSIVE allocate_ids(_, _, _)
allocate_ids(n, id_set, id_counter) ==
    IF n = 0 THEN <<>>
    ELSE <<skip_used(id_set, id_counter).id_counter>>
         \o allocate_ids(n - 1, skip_used(id_set, id_counter).id_set,
                         skip_used(id_set, id_counter).id_counter + 1)

\* CsvAbbreviatedEntry.into_complete
into_complete(e, id, key_hex) == CsvCompleteEntry(id, key_hex, e.key_str, e.text)

\* a slip of sort_by_id: the list is left as it is
not_sorted(list) == list

\* e put into a list sorted by id, after the entries whose id is not greater
insert_sorted(sorted, e) ==
    LET k == Cardinality({i \in 1..Len(sorted) : sorted[i].id <= e.id})
    IN  SubSeq(sorted, 1, k) \o <<e>> \o SubSeq(sorted, k + 1, Len(sorted))

\* list.sort(key=lambda entry: entry.id): a stable sort
RECURSIVE sort_by_id(_)
sort_by_id(list) ==
    IF list = <<>> THEN <<>>
    ELSE insert_sorted(sort_by_id(Front(list)), Last(list))

\* the ids prepare_output_csv gives to the abbreviated entries of input
allocated_ids(input, space) ==
    IF space # None /\ Len(input.entries_abbrev) > 0
    THEN allocate_ids(Len(input.entries_abbrev),
                      {input.entries_complete[i].id : i \in 1..Len(input.entries_complete)},
                      MOD_ID_RANGE_start + The(space) * ID_SPACE_SIZE)
    ELSE <<>>

\* prepare_output_csv, given the id space and the ids it allocates
OutputDocumentOf(input, space, ids) ==
    [target_lang |-> The(PyOrStr(input.target_lang, Some(EN))),
     header_lang_meta |->
        IF input.header_lang_meta # None THEN The(input.header_lang_meta) ELSE EN,
     id_space |-> IF ~input.has_vanilla_entries THEN space ELSE None,
     entries |->
        sort_by_id([n \in 1..Len(ids) |-> into_complete(input.entries_abbrev[n], ids[n], <<>>)]
                   \o input.entries_complete)]

prepare_output_csv(input) ==
    OutputDocumentOf(input,
        PyOr(input.header_mod_id_space, input.content_mod_id_space),
        allocated_ids(input, PyOr(input.header_mod_id_space, input.content_mod_id_space)))

(***************************************************************************)
(* Bounds and the inputs the model draws from                              *)
(***************************************************************************)

\* the most pieces (lines, a trailing newline counted) of an existing file
MaxDocLines == 3

\* how many times the same merge is run on the file
MaxMerges == 2

SeqsUpTo(S, n) == UNION {[1..m -> S] : m \in 0..n}

K1 == <<"k", "1">>
K2 == <<"k", "2">>
K3 == <<"k", "3">>
K4 == <<"k", "4">>
K5 == <<"k", "5">>
K6 == <<"k", "6">>

SectionLine(name) == <<";">> \o SECTION_KEY \o <<"=">> \o name

\* the lines an existing annotated file is made of
DocLinePool ==
    { SectionLine(COMMENT_SECTION_MENU),
      SectionLine(COMMENT_SECTION_BUNDLE),
      SectionLine(COMMENT_SECTION_SCRIPTS),
      <<" ">> \o K1 \o <<"|", "t">>,                  \* padded key|text
      <<"5", "|", "a", "b", "|">> \o K2 \o <<"|", "t">>,  \* id|key_hex|key|text
      <<>>,                                            \* empty line
      K1 \o <<"|", "t", "|", "x">> }                   \* three columns

\* the texts of an existing file: one to MaxDocLines pieces
DocTexts == SeqsUpTo(DocLinePool, MaxDocLines) \ {<<>>}

\* the most pieces (lines) of an input CSV file
MaxCsvLines == 4

IdLine(id) == id \o <<"|", "0", "a", "|">> \o K2 \o <<"|", "t">>

\* the lines an input CSV file is made of
CsvLinePool ==
    { <<";">> \o IDSPACE_KEY \o <<"=", "0">>,                  \* ;idspace=0
      <<";">> \o IDSPACE_KEY \o <<"=", "4", "2">>,             \* ;idspace=42
      <<";">> \o META_LANGUAGE_KEY \o <<"=", "d", "e", "]">>,  \* ;meta[language=de]
      K1 \o <<"|", "t">>,                                      \* key|text
      IdLine(<<"2", "1", "1", "0", "0", "0", "0", "0", "0", "0">>),
      IdLine(<<"2", "1", "1", "0", "0", "0", "0", "0", "0", "1">>),
      IdLine(<<"2", "1", "1", "0", "0", "4", "2", "0", "0", "0">>),
      IdLine(<<"2", "1", "1", "0", "0", "4", "2", "0", "0", "1">>),
      IdLine(<<"1", "2", "3", "4", "5", "6", "7">>),            \* a vanilla id
      K1 }                                                     \* one column

CsvTexts == SeqsUpTo(CsvLinePool, MaxCsvLines) \ {<<>>}

\* the names of an input CSV file
CsvNames ==
    { <<"x", ".", "c", "s", "v">>,
      <<"x", ".", "p", "l", ".", "c", "s", "v">> }

NewEntry(key) == CsvAbbreviatedEntry(key, MISSING_LOCALISATION)

\* the candidate lists of each section: K1 is a key the file may hold, K3 is
\* given to two sections, K6 twice in one list
MenuLists == { <<>>, <<NewEntry(K1)>>, <<NewEntry(K3), NewEntry(K4)>> }
BundleLists == { <<>>, <<NewEntry(K3)>>, <<NewEntry(K5)>> }
ScriptsLists == { <<>>, <<NewEntry(K1)>>, <<NewEntry(K6)>>, <<NewEntry(K6), NewEntry(K6)>> }

\* the dict the callers pass: the sections in insertion order
CandidateMaps ==
    { << [section |-> COMMENT_SECTION_MENU, entries |-> m],
         [section |-> COMMENT_SECTION_BUNDLE, entries |-> b],
         [section |-> COMMENT_SECTION_SCRIPTS, entries |-> s] >> :
      m \in MenuLists, b \in BundleLists, s \in ScriptsLists }

(***************************************************************************)
(* State                                                                   *)
(***************************************************************************)

VARIABLES
    disk,        \* the text of the target file
    entries,     \* the dict of candidates given to merge_abbreviated_entries
    pc,          \* where merge_abbreviated_entries stands
    file_lines,  \* CsvMergingDocument.file_lines
    sections,    \* CsvMergingDocument.sections
    str_keys,    \* CsvMergingDocument.str_keys
    sec_i,       \* the item of entries.items() the loop is at
    error,       \* the exception raised, if any
    history,     \* the texts of the file: the original, then after each merge
    orig_lines,  \* file_lines as __init__ left them
    origin,      \* for each line of file_lines, where it comes from
    csv_name,    \* the base name of the input CSV file
    csv_text,    \* the text of the input CSV file
    csv_pc,      \* where csv_context_work stands
    input_doc,   \* the CsvInputDocument, or the exception its construction raised
    output_doc,  \* the CsvOutputDocument
    allocated,   \* the ids prepare_output_csv gave to the abbreviated entries
    parse_line,  \* the line given to parse_entry
    parse_pc,    \* where the reading of that line stands
    parsed_entry,    \* what parse_entry returned
    entry_id_space,  \* what id_space() of the entry returned
    args_lang,       \* args.lang: a language of ALL_LANGS or 'all'
    args_keep_csv,   \* args.keep_csv
    output_path,     \* what args.output_path points to: a directory or a file
    cmd,             \* the command the encoder was run with, if it was
    returncode,      \* the exit status of the encoder, if it ran
    output_dir,      \* the files csv_context_work put in the output directory
    menu_keys,       \* the keys directory_context_work found in config XMLs
    bundle_keys,     \* the keys it found in bundled XMLs
    script_keys      \* the keys it found in WitcherScript files

merge_vars == <<disk, entries, pc, file_lines, sections, str_keys, sec_i, error,
                history, orig_lines, origin>>

encode_vars == <<args_lang, args_keep_csv, output_path, cmd, returncode, output_dir>>

csv_vars == <<csv_name, csv_text, csv_pc, input_doc, output_doc, allocated, encode_vars>>

dir_vars == <<menu_keys, bundle_keys, script_keys>>

entry_vars == <<parse_line, parse_pc, parsed_entry, entry_id_space>>

vars == <<disk, entries, pc, file_lines, sections, str_keys, sec_i, error,
          history, orig_lines, origin,
          csv_name, csv_text, csv_pc, input_doc, output_doc, allocated,
          parse_line, parse_pc, parsed_entry, entry_id_space,
          encode_vars, dir_vars>>

NoDocument == [ok |-> FALSE, stage |-> "", error |-> "", error_line |-> 0,
               named_spaces |-> {}, named_pair |-> <<>>]

\* no single line is being read
EntryIdle ==
    /\ parse_line = <<>>
    /\ parse_pc = "idle"
    /\ parsed_entry = PlainLine(<<>>)
    /\ entry_id_space = None

\* the value of args.lang that asks for every language: the default
ALL == <<"a", "l", "l">>

\* the output directory with nothing put in it
NoOutput == [w3strings |-> {}, csv |-> FALSE]

\* the arguments left at their defaults and the encoder not run
EncodeIdle ==
    /\ args_lang = ALL
    /\ args_keep_csv = FALSE
    /\ output_path = "directory"
    /\ cmd = None
    /\ returncode = None
    /\ output_dir = NoOutput

\* no CSV file is being encoded
CsvIdle ==
    /\ csv_name = <<>>
    /\ csv_text = << <<>> >>
    /\ csv_pc = "idle"
    /\ input_doc = NoDocument
    /\ output_doc = NoDocument
    /\ allocated = <<>>
    /\ EncodeIdle

\* no directory is being searched
DirIdle ==
    /\ menu_keys = <<>>
    /\ bundle_keys = <<>>
    /\ script_keys = <<>>

\* no merge is running
MergeIdle ==
    /\ disk = << <<>> >>
    /\ entries = <<>>
    /\ pc = "idle"
    /\ file_lines = <<>>
    /\ sections = <<>>
    /\ str_keys = {}
    /\ sec_i = 1
    /\ error = [kind |-> "none", line |-> 0]
    /\ history = <<>>
    /\ orig_lines = <<>>
    /\ origin = <<>>

NoError == [kind |-> "none", line |-> 0]

FromFile == [kind |-> "file", section |-> <<>>]

MergeInit ==
    /\ CsvIdle
    /\ EntryIdle
    /\ DirIdle
    /\ disk \in DocTexts
    /\ entries \in CandidateMaps
    /\ pc = "start"
    /\ file_lines = <<>>
    /\ sections = <<>>
    /\ str_keys = {}
    /\ sec_i = 1
    /\ error = NoError
    /\ history = <<disk>>
    /\ orig_lines = <<>>
    /\ origin = <<>>

\* a slip of MergeOpen: the file is opened for writing, which empties it
\* before its lines are read back from the text held in memory
MergeOpenTruncating ==
    /\ UNCHANGED <<csv_vars, entry_vars, dir_vars>>
    /\ pc = "start"
    /\ \E d \in {CsvMergingDocument_init(disk)} :
           IF d.ok
           THEN /\ file_lines' = d.file_lines
                /\ sections' = d.sections
                /\ str_keys' = d.str_keys
                /\ orig_lines' = d.file_lines
                /\ origin' = [i \in 1..Len(d.file_lines) |-> FromFile]
                /\ pc' = "insert"
                /\ error' = NoError
           ELSE /\ pc' = "failed"
                /\ error' = [kind |-> "line", line |-> d.error_line]
                /\ UNCHANGED <<file_lines, sections, str_keys, orig_lines, origin>>
    /\ sec_i' = 1
    /\ disk' = << <<>> >>
    /\ UNCHANGED <<entries, history>>

\* doc = CsvMergingDocument(file_path)
MergeOpen ==
    /\ UNCHANGED <<csv_vars, entry_vars, dir_vars>>
    /\ pc = "start"
    /\ \E d \in {CsvMergingDocument_init(disk)} :
           IF d.ok
           THEN /\ file_lines' = d.file_lines
                /\ sections' = d.sections
                /\ str_keys' = d.str_keys
                /\ orig_lines' = d.file_lines
                /\ origin' = [i \in 1..Len(d.file_lines) |-> FromFile]
                /\ pc' = "insert"
                /\ error' = NoError
           ELSE /\ pc' = "failed"
                /\ error' = [kind |-> "line", line |-> d.error_line]
                /\ UNCHANGED <<file_lines, sections, str_keys, orig_lines, origin>>
    /\ sec_i' = 1
    /\ UNCHANGED <<disk, entries, history>>

\* one turn of the loop over entries.items()
MergeSection ==
    /\ UNCHANGED <<csv_vars, entry_vars, dir_vars>>
    /\ pc = "insert"
    /\ sec_i <= Len(entries)
    /\ LET section == entries[sec_i].section
           section_entries == entries[sec_i].entries
       IN  IF Len(section_entries) > 0
           THEN \E d \in {insert_entries(file_lines, sections, str_keys,
                                        section_entries, section)} :
                \E r \in {section_range(file_lines, sections, section)} :
                LET kept == filter_entries(section_entries, str_keys)
                    marked == IF Len(r.file_lines) > Len(file_lines)
                              THEN Append(origin, [kind |-> "marker", section |-> section])
                              ELSE origin
                IN  /\ file_lines' = d.file_lines
                    /\ sections' = d.sections
                    /\ str_keys' = d.str_keys
                    /\ origin' = ListInsert(marked, r.stop,
                                    [i \in 1..Len(kept) |->
                                        [kind |-> "entry", section |-> section]])
           ELSE UNCHANGED <<file_lines, sections, str_keys, origin>>
    /\ sec_i' = sec_i + 1
    /\ UNCHANGED <<disk, entries, pc, error, history, orig_lines>>

\* doc.save()
MergeSave ==
    /\ UNCHANGED <<csv_vars, entry_vars, dir_vars>>
    /\ pc = "insert"
    /\ sec_i > Len(entries)
    /\ disk' = save_text(file_lines)
    /\ history' = Append(history, disk')
    /\ pc' = "done"
    /\ UNCHANGED <<entries, file_lines, sections, str_keys, sec_i, error,
                   orig_lines, origin>>

\* the same merge_abbreviated_entries(entries, file_path) is run again
MergeAgain ==
    /\ UNCHANGED <<csv_vars, entry_vars, dir_vars>>
    /\ pc = "done"
    /\ Len(history) <= MaxMerges
    /\ pc' = "start"
    /\ UNCHANGED <<disk, entries, file_lines, sections, str_keys, sec_i, error,
                   history, orig_lines, origin>>

MergeNext == MergeOpen \/ MergeSection \/ MergeSave \/ MergeAgain

SpecMerge == MergeInit /\ [][MergeNext]_vars

(***************************************************************************)
(* save_or_merge_abbreviated_entries on a path that may not exist          *)
(***************************************************************************)

\* the most lines of the file when the path exists
MaxOldLines == 2

\* the text of a path that does not exist: no piece at all
NoFile == <<>>

\* the first line save_abbreviated_entries writes
IDSPACE_PLACEHOLDER == <<";">> \o IDSPACE_KEY \o <<"=", "?", "?", "?", "?">>

\* a slip of section_blocks: a section with no entries gets no marker
RECURSIVE nonempty_section_blocks(_)
nonempty_section_blocks(ents) ==
    IF ents = <<>> THEN <<>>
    ELSE (IF Head(ents).entries = <<>> THEN <<>>
          ELSE <<SectionLine(Head(ents).section)>>
               \o [k \in 1..Len(Head(ents).entries) |->
                      CsvAbbreviatedEntry_str(Head(ents).entries[k])])
         \o nonempty_section_blocks(Tail(ents))

\* the loop of save_abbreviated_entries: for each item of the dict the
\* marker of the section, then its entries
RECURSIVE section_blocks(_)
section_blocks(ents) ==
    IF ents = <<>> THEN <<>>
    ELSE <<SectionLine(Head(ents).section)>>
         \o [k \in 1..Len(Head(ents).entries) |->
                CsvAbbreviatedEntry_str(Head(ents).entries[k])]
         \o section_blocks(Tail(ents))

\* save_abbreviated_entries: the text written to the file
save_abbreviated_entries(ents) ==
    write_lines(<<IDSPACE_PLACEHOLDER>> \o section_blocks(ents))

SaveOrMergeInit ==
    /\ CsvIdle
    /\ EntryIdle
    /\ DirIdle
    /\ disk \in {NoFile} \cup (SeqsUpTo(DocLinePool, MaxOldLines) \ {<<>>})
    /\ entries \in CandidateMaps
    /\ pc = "start"
    /\ file_lines = <<>>
    /\ sections = <<>>
    /\ str_keys = {}
    /\ sec_i = 1
    /\ error = NoError
    /\ history = <<disk>>
    /\ orig_lines = <<>>
    /\ origin = <<>>

\* os.path.exists(file_path) is false: save_abbreviated_entries
SaveFresh ==
    /\ UNCHANGED <<csv_vars, entry_vars, dir_vars>>
    /\ pc = "start"
    /\ disk = NoFile
    /\ disk' = save_abbreviated_entries(entries)
    /\ history' = Append(history, disk')
    /\ pc' = "saved"
    /\ UNCHANGED <<entries, file_lines, sections, str_keys, sec_i, error,
                   orig_lines, origin>>

\* os.path.exists(file_path) is true: merge_abbreviated_entries
MergeExisting ==
    /\ disk # NoFile
    /\ MergeOpen

\* save_or_merge_abbreviated_entries is run again on the file just written
SaveAgain ==
    /\ UNCHANGED <<csv_vars, entry_vars, dir_vars>>
    /\ pc = "saved"
    /\ Len(history) <= MaxMerges
    /\ pc' = "start"
    /\ UNCHANGED <<disk, entries, file_lines, sections, str_keys, sec_i, error,
                   history, orig_lines, origin>>

SaveOrMergeNext ==
    SaveFresh \/ MergeExisting \/ MergeSection \/ MergeSave \/ MergeAgain \/ SaveAgain

SpecSaveOrMerge == SaveOrMergeInit /\ [][SaveOrMergeNext]_vars

(***************************************************************************)
(* Encoding a CSV file: csv_context_work                                   *)
(***************************************************************************)

CsvInit ==
    /\ MergeIdle
    /\ EntryIdle
    /\ DirIdle
    /\ csv_name \in CsvNames
    /\ csv_text \in CsvTexts
    /\ csv_pc = "start"
    /\ input_doc = NoDocument
    /\ output_doc = NoDocument
    /\ allocated = <<>>
    /\ EncodeIdle

\* input_doc = CsvInputDocument(scratch.input_copy_path)
CsvRead ==
    /\ csv_pc = "start"
    /\ \E d \in {CsvInputDocument(csv_name, csv_text)} :
        /\ input_doc' = d
        /\ csv_pc' = IF d.ok THEN "parsed" ELSE "failed"
    /\ UNCHANGED <<csv_name, csv_text, output_doc, allocated>>
    /\ UNCHANGED <<merge_vars, entry_vars, encode_vars, dir_vars>>

\* output_doc = prepare_output_csv(input_doc)
CsvPrepare ==
    /\ csv_pc = "parsed"
    /\ output_doc' = prepare_output_csv(input_doc)
    /\ allocated' = allocated_ids(input_doc,
                        PyOr(input_doc.header_mod_id_space,
                             input_doc.content_mod_id_space))
    /\ csv_pc' = "prepared"
    /\ UNCHANGED <<csv_name, csv_text, input_doc>>
    /\ UNCHANGED <<merge_vars, entry_vars, encode_vars, dir_vars>>

CsvNext == CsvRead \/ CsvPrepare

SpecCsv == CsvInit /\ [][CsvNext]_vars

(***************************************************************************)
(* Reading one line: parse_entry, then id_space() of a complete entry      *)
(***************************************************************************)

\* the most fields of a line given to parse_entry
MaxFields == 5

\* what a field of such a line is
FieldPool ==
    { <<>>, <<"a">>, <<" ">>, <<";">>, <<"7">>, <<"7", " ">>, <<"-", "7">>,
      <<"7", "a">> }

\* the ids of the complete lines: around the ends of MOD_ID_RANGE and of its
\* blocks of 1000
EntryIds ==
    { 0, 999, 1000, 1234567,
      MOD_ID_RANGE_start - 1, MOD_ID_RANGE_start, MOD_ID_RANGE_start + 999,
      MOD_ID_RANGE_start + 1000, MOD_ID_RANGE_start + 42000,
      MOD_ID_RANGE_stop - 1001, MOD_ID_RANGE_stop - 1000, MOD_ID_RANGE_stop - 1,
      MOD_ID_RANGE_stop, MOD_ID_RANGE_stop + 1000,
      MOD_ID_RANGE_stop + 999, MOD_ID_RANGE_stop + 10000000,
      0 - 1, 0 - MOD_ID_RANGE_start }

EntryLines ==
    { Join(f, "|") : f \in UNION {[1..n -> FieldPool] : n \in 1..MaxFields} }
    \cup { IdLine(IntStr(id)) : id \in EntryIds }

EntryInit ==
    /\ MergeIdle
    /\ CsvIdle
    /\ DirIdle
    /\ parse_line \in EntryLines
    /\ parse_pc = "start"
    /\ parsed_entry = PlainLine(<<>>)
    /\ entry_id_space = None

\* entry = parse_entry(line)
EntryParse ==
    /\ parse_pc = "start"
    /\ parsed_entry' = parse_entry(parse_line)
    /\ parse_pc' = "parsed"
    /\ UNCHANGED <<parse_line, entry_id_space>>
    /\ UNCHANGED <<merge_vars, csv_vars, dir_vars>>

\* entry.id_space() of a complete entry
EntryIdSpace ==
    /\ parse_pc = "parsed"
    /\ parsed_entry.tag = "complete"
    /\ entry_id_space' = id_space(parsed_entry.id)
    /\ parse_pc' = "classified"
    /\ UNCHANGED <<parse_line, parsed_entry>>
    /\ UNCHANGED <<merge_vars, csv_vars, dir_vars>>

EntryNext == EntryParse \/ EntryIdSpace

SpecEntry == EntryInit /\ [][EntryNext]_vars

(***************************************************************************)
(* Encoding CSV files that differ in their name and header: the languages  *)
(***************************************************************************)

\* the most comment lines before the record of such a file
MaxHeaderLines == 2

\* the names of the file, as their parts between the dots
LangNameParts ==
    { << <<"x">>, <<"c", "s", "v">> >>,                       \* x.csv
      << <<"x">>, <<"p", "l">>, <<"c", "s", "v">> >>,         \* x.pl.csv
      << <<"d", "e">>, <<"p", "l">>, <<"c", "s", "v">> >>,    \* de.pl.csv
      << <<"x">>, <<"a", "r">>, <<"c", "s", "v">> >>,         \* x.ar.csv
      << <<"x">>, <<"d", "e">> >>,                            \* x.de
      << <<"p", "l">> >> }                                    \* pl

LangNames == {Join(parts, ".") : parts \in LangNameParts}

\* ;meta[language=value]
MetaLine(value) == <<";">> \o META_LANGUAGE_KEY \o <<"=">> \o value \o <<"]">>

\* the language metas a header line of the model gives
LangMetas == { <<"d", "e">>, <<"f", "r">>, CLEARTEXT, <<"x", "x">> }

LangHeaderPool ==
    { MetaLine(v) : v \in LangMetas }
    \cup { <<";", " ">> \o META_LANGUAGE_KEY \o <<" ", "=", " ", "c", "z", "]">>,
           <<";">> \o IDSPACE_KEY \o <<"=", "4", "2">>,
           <<";", " ", "t", "e", "x", "t">> }

LangRecord == IdLine(<<"2", "1", "1", "0", "0", "4", "2", "0", "0", "0">>)

\* the header lines, one record, and at most one comment line after it
LangTexts ==
    { h \o <<LangRecord>> \o t :
        h \in SeqsUpTo(LangHeaderPool, MaxHeaderLines),
        t \in {<<>>, <<MetaLine(<<"d", "e">>)>>, <<MetaLine(<<"i", "t">>)>>} }

LangInit ==
    /\ MergeIdle
    /\ EntryIdle
    /\ DirIdle
    /\ csv_name \in LangNames
    /\ csv_text \in LangTexts
    /\ csv_pc = "start"
    /\ input_doc = NoDocument
    /\ output_doc = NoDocument
    /\ allocated = <<>>
    /\ EncodeIdle

SpecLang == LangInit /\ [][CsvNext]_vars

(***************************************************************************)
(* Encoding a CSV file to the end: csv_context_work with the encoder run   *)
(* and the files it leaves in the output directory                         *)
(***************************************************************************)

\* the most pieces (lines) of the input CSV file of an encoding
MaxEncodeLines == 2

\* the lines such a file is made of
EncodeLinePool ==
    { <<";">> \o IDSPACE_KEY \o <<"=", "4", "2">>,             \* ;idspace=42
      K1 \o <<"|", "t">>,                                      \* key|text
      IdLine(<<"2", "1", "1", "0", "0", "0", "0", "0", "0", "0">>),
      IdLine(<<"2", "1", "1", "0", "0", "4", "2", "0", "0", "0">>),
      IdLine(<<"1", "2", "3", "4", "5", "6", "7">>),            \* a vanilla id
      K1 }                                                     \* one column

EncodeTexts == SeqsUpTo(EncodeLinePool, MaxEncodeLines) \ {<<>>}

\* the values of args.lang the model draws from
EncodeLangs == {ALL, EN, <<"p", "l">>}

\* a slip of encode_cmd: the id space is tested for truth, so that the id
\* space 0 disables the check like None does
encode_cmd_truthy(space) ==
    IF space = None \/ space = Some(0)
    THEN [disable_id_check |-> TRUE, i |-> None]
    ELSE [disable_id_check |-> FALSE, i |-> space]

\* the options encode() adds after -e "{csv_path}": the flag that disables
\* the id check, or -i {id_space}
encode_cmd(space) ==
    IF space = None
    THEN [disable_id_check |-> TRUE, i |-> None]
    ELSE [disable_id_check |-> FALSE, i |-> space]

\* langs = ALL_LANGS if args.lang == 'all' else [args.lang]
langs(lang) == IF lang = ALL THEN ALL_LANGS ELSE <<lang>>

EncodeInit ==
    /\ MergeIdle
    /\ EntryIdle
    /\ DirIdle
    /\ csv_name = <<"x", ".", "c", "s", "v">>
    /\ csv_text \in EncodeTexts
    /\ csv_pc = "called"
    /\ input_doc = NoDocument
    /\ output_doc = NoDocument
    /\ allocated = <<>>
    /\ args_lang \in EncodeLangs
    /\ args_keep_csv \in BOOLEAN
    /\ output_path \in {"directory", "file"}
    /\ cmd = None
    /\ returncode = None
    /\ output_dir = NoOutput

\* if os.path.isfile(args.output_path) or maybeisfile(args.output_path): raise
CsvCheckOutputPath ==
    /\ csv_pc = "called"
    /\ csv_pc' = IF output_path = "file" THEN "rejected" ELSE "start"
    /\ UNCHANGED <<csv_name, csv_text, input_doc, output_doc, allocated, encode_vars>>
    /\ UNCHANGED <<merge_vars, entry_vars, dir_vars>>

\* w3strings_file = encoder.encode(output_doc_path, output_doc.id_space):
\* the encoder runs and exits with a status of its own; execute() raises
\* when the status is not 0
CsvEncode ==
    /\ csv_pc = "prepared"
    /\ cmd' = Some(encode_cmd(output_doc.id_space))
    /\ \E status \in {0, 1} :
          /\ returncode' = Some(status)
          /\ csv_pc' = IF status = 0 THEN "encoded" ELSE "encoder_failed"
    /\ UNCHANGED <<csv_name, csv_text, input_doc, output_doc, allocated>>
    /\ UNCHANGED <<args_lang, args_keep_csv, output_path, output_dir>>
    /\ UNCHANGED <<merge_vars, entry_vars, dir_vars>>

\* for lang in langs: shutil.copy(w3strings_file, '{lang}.w3strings')
CsvCopyEncoded ==
    /\ csv_pc = "encoded"
    /\ output_dir' =
          [output_dir EXCEPT !.w3strings =
              {langs(args_lang)[n] : n \in 1..Len(langs(args_lang))}]
    /\ csv_pc' = "copied"
    /\ UNCHANGED <<csv_name, csv_text, input_doc, output_doc, allocated>>
    /\ UNCHANGED <<args_lang, args_keep_csv, output_path, cmd, returncode>>
    /\ UNCHANGED <<merge_vars, entry_vars, dir_vars>>

\* a slip of CsvFinally: the copy of the prepared CSV stands at the end of
\* the try block, so that it is reached only when the encoder succeeded
CsvKeepAfterSuccess ==
    /\ csv_pc \in {"copied", "encoder_failed"}
    /\ output_dir' = IF args_keep_csv /\ csv_pc = "copied"
                     THEN [output_dir EXCEPT !.csv = TRUE]
                     ELSE output_dir
    /\ csv_pc' = IF csv_pc = "copied" THEN "done" ELSE "raised"
    /\ UNCHANGED <<csv_name, csv_text, input_doc, output_doc, allocated>>
    /\ UNCHANGED <<args_lang, args_keep_csv, output_path, cmd, returncode>>
    /\ UNCHANGED <<merge_vars, entry_vars, dir_vars>>

\* finally: if args.keep_csv: shutil.copy(output_doc_path, args.output_path);
\* then the function returns, or the exception of the encoder goes on
CsvFinally ==
    /\ csv_pc \in {"copied", "encoder_failed"}
    /\ output_dir' = IF args_keep_csv
                     THEN [output_dir EXCEPT !.csv = TRUE]
                     ELSE output_dir
    /\ csv_pc' = IF csv_pc = "copied" THEN "done" ELSE "raised"
    /\ UNCHANGED <<csv_name, csv_text, input_doc, output_doc, allocated>>
    /\ UNCHANGED <<args_lang, args_keep_csv, output_path, cmd, returncode>>
    /\ UNCHANGED <<merge_vars, entry_vars, dir_vars>>

EncodeNext ==
    \/ CsvCheckOutputPath
    \/ CsvRead
    \/ CsvPrepare
    \/ CsvEncode
    \/ CsvCopyEncoded
    \/ CsvFinally

SpecEncode == EncodeInit /\ [][EncodeNext]_vars

\* csv_context_work runs its statements one after the other: once the
\* encoder has exited, the copies of the try block and of the finally block
\* are made when they are due
SpecEncodeFair ==
    SpecEncode /\ WF_vars(CsvCopyEncoded) /\ WF_vars(CsvFinally)

(***************************************************************************)
(* Searching a directory: directory_context_work from the end of the walk  *)
(***************************************************************************)

\* ord(c) of the characters of the keys
ord(c) ==
    CASE c = "1" -> 49 [] c = "2" -> 50 [] c = "3" -> 51 [] c = "4" -> 52
      [] c = "5" -> 53 [] c = "6" -> 54 [] c = "B" -> 66 [] c = "a" -> 97
      [] c = "b" -> 98 [] c = "k" -> 107

\* a < b on str: by code points, a proper prefix first
RECURSIVE StrLess(_, _)
StrLess(a, b) ==
    IF b = <<>> THEN FALSE
    ELSE IF a = <<>> THEN TRUE
    ELSE IF ord(Head(a)) # ord(Head(b)) THEN ord(Head(a)) < ord(Head(b))
    ELSE StrLess(Tail(a), Tail(b))

\* sorted(keys): increasing, equal keys in the order they had
RECURSIVE sorted(_)
sorted(keys) ==
    IF keys = <<>> THEN <<>>
    ELSE LET rest == sorted(Front(keys))
             k == Last(keys)
         IN  SelectSeq(rest, LAMBDA x : ~StrLess(k, x))
                 \o <<k>> \o SelectSeq(rest, LAMBDA x : StrLess(k, x))

\* the first loop of remove_duplicate_keys_and_filter: each key at its first
\* appearance
RECURSIVE first_appearances(_)
first_appearances(keys) ==
    IF keys = <<>> THEN <<>>
    ELSE LET result == first_appearances(Front(keys))
         IN  IF \E i \in 1..Len(result) : result[i] = Last(keys)
             THEN result
             ELSE Append(result, Last(keys))

\* re.search(search, k) is not None, for a search text without special
\* characters: the text occurs in k
re_search(search, k) ==
    \E i \in 0..(Len(k) - Len(search)) : SubSeq(k, i + 1, i + Len(search)) = search

remove_duplicate_keys_and_filter(keys, search) ==
    LET result == SelectSeq(first_appearances(keys), LAMBDA k : k # <<>>)
    IN  IF search # <<>>
        THEN SelectSeq(result, LAMBDA k : re_search(search, k))
        ELSE result

\* a slip of key_list_difference: nothing is taken out of lhs
key_list_kept(lhs, rhs) == lhs

\* [k for k in lhs if k not in set(rhs)]
key_list_difference(lhs, rhs) ==
    SelectSeq(lhs, LAMBDA k : \A i \in 1..Len(rhs) : rhs[i] # k)

\* the three lists as directory_context_work leaves them before it makes
\* the entries: lines 1091 to 1099
final_menu_keys(menu) == remove_duplicate_keys_and_filter(menu, <<>>)

final_bundle_keys(menu, bundle) ==
    key_list_difference(sorted(remove_duplicate_keys_and_filter(bundle, <<>>)),
                        final_menu_keys(menu))

final_script_keys(menu, bundle, script) ==
    key_list_difference(
        key_list_difference(sorted(remove_duplicate_keys_and_filter(script, <<>>)),
                            final_menu_keys(menu)),
        final_bundle_keys(menu, bundle))

\* sections = {menu: [...], bundle: [...], scripts: [...]}
dir_sections(menu, bundle, script) ==
    LET as_entries(keys) == [n \in 1..Len(keys) |-> NewEntry(keys[n])]
    IN  << [section |-> COMMENT_SECTION_MENU,
            entries |-> as_entries(final_menu_keys(menu))],
           [section |-> COMMENT_SECTION_BUNDLE,
            entries |-> as_entries(final_bundle_keys(menu, bundle))],
           [section |-> COMMENT_SECTION_SCRIPTS,
            entries |-> as_entries(final_script_keys(menu, bundle, script))] >>

\* the most keys the walk gathers from the files of one source type
MaxDirKeys == 2

\* the keys the files hold: none is empty, the files' own lists are filtered
DirKeyPool == { <<"b">>, <<"a", "b">>, <<"B">> }

\* the lists the walk may gather: a key may come in twice, from two files
DirKeyLists == SeqsUpTo(DirKeyPool, MaxDirKeys)

\* the CSV file at the output path: none, or one that holds the key b
DirDisks == { NoFile, << <<"b", "|", "t">> >> }

DirInit ==
    /\ CsvIdle
    /\ EntryIdle
    /\ menu_keys \in DirKeyLists
    /\ bundle_keys \in DirKeyLists
    /\ script_keys \in DirKeyLists
    /\ disk \in DirDisks
    /\ entries = <<>>
    /\ pc = "collect"
    /\ file_lines = <<>>
    /\ sections = <<>>
    /\ str_keys = {}
    /\ sec_i = 1
    /\ error = NoError
    /\ history = <<disk>>
    /\ orig_lines = <<>>
    /\ origin = <<>>

\* the lines after the walk: the lists are cleaned and made into the
\* sections dict that save_or_merge_abbreviated_entries is called with
DirSections ==
    /\ pc = "collect"
    /\ entries' = dir_sections(menu_keys, bundle_keys, script_keys)
    /\ pc' = "start"
    /\ UNCHANGED <<disk, file_lines, sections, str_keys, sec_i, error,
                   history, orig_lines, origin>>
    /\ UNCHANGED <<csv_vars, entry_vars, dir_vars>>

DirNext ==
    \/ DirSections
    \/ SaveFresh
    \/ MergeExisting
    \/ MergeSection
    \/ MergeSave

SpecDirectory == DirInit /\ [][DirNext]_vars

(***************************************************************************)
(* Claims about the merge engine (checked under SpecMerge)                 *)
(***************************************************************************)

\* the lines of the file as written, parsed again
WrittenLines(text) ==
    [i \in 1..Len(read_lines(text)) |-> parse_entry(read_lines(text)[i])]

HasMarker(lines, name) ==
    \E j \in 1..Len(lines) : IsSectionMarker(lines[j]) /\ lines[j].value = name

\* the names of the section markers of lines, in order
MarkerNames(lines) ==
    LET marks == SelectSeq([i \in 1..Len(lines) |-> i],
                           LAMBDA i : IsSectionMarker(lines[i]))
    IN  [n \in 1..Len(marks) |-> lines[marks[n]].value]

\* the keys of the record lines of lines, in order
RecordKeys(lines) ==
    LET recs == SelectSeq([i \in 1..Len(lines) |-> i], LAMBDA i : IsRecord(lines[i]))
    IN  [n \in 1..Len(recs) |-> lines[recs[n]].key_str]

Distinct(seq) == \A i, j \in 1..Len(seq) : i # j => seq[i] # seq[j]

RECURSIVE IsSubseq(_, _)
IsSubseq(a, b) ==
    IF a = <<>> THEN TRUE
    ELSE IF b = <<>> THEN FALSE
    ELSE IF Head(a) = Head(b) THEN IsSubseq(Tail(a), Tail(b))
    ELSE IsSubseq(a, Tail(b))

IsPrefix(a, b) == Len(a) <= Len(b) /\ SubSeq(b, 1, Len(a)) = a

\* the document as read held a marker of every section of the dict
AllMarkersPresent ==
    \A i \in 1..Len(entries) : HasMarker(orig_lines, entries[i].section)

\* line p of the written lines lies in section name: the nearest marker
\* above it is the marker of name
LiesInSection(lines, p, name) ==
    \E m \in 1..(p - 1) :
        /\ IsSectionMarker(lines[m])
        /\ lines[m].value = name
        /\ \A q \in (m + 1)..(p - 1) : ~IsSectionMarker(lines[q])

\* C1: in a merge into a document that already holds the section markers,
\* every record inserted for a section lies, in the written document, after
\* that section's marker and before the next section marker (or the end of
\* the file), for every section processed.
C1_InsertedInOwnSection ==
    (pc = "done" /\ AllMarkersPresent) =>
        \A p \in 1..Len(origin) :
            origin[p].kind = "entry" =>
                LiesInSection(WrittenLines(disk), p, origin[p].section)

\* C2: after a merge into a document whose record keys are pairwise distinct,
\* no key occurs in more than one record line of the written document,
\* whatever the candidate lists.
C2_NoKeyTwice ==
    (pc = "done" /\ Distinct(RecordKeys(orig_lines))) =>
        Distinct(RecordKeys(WrittenLines(disk)))

\* C3: running the same merge again on the result writes the same document
\* as running it once.
C3_MergeIdempotent ==
    \A i \in 3..Len(history) : history[i] = history[2]

\* C4: every line of the original file appears in the written file with
\* exactly the same text.
C4_OriginalLinesVerbatim ==
    Len(history) >= 2 =>
        \A i \in 1..Len(read_lines(history[1])) :
            \E j \in 1..Len(history[2]) :
                history[2][j] = read_lines(history[1])[i]

\* C5: after any sequence of insert_entries calls the lines parsed from the
\* file all still occur in the line buffer in their original order, and the
\* section markers they held keep their order (markers are only added after
\* them).
C5_OriginalLinesKept ==
    /\ IsSubseq(orig_lines, file_lines)
    /\ IsPrefix(MarkerNames(orig_lines), MarkerNames(file_lines))

\* C5's case: two sections have received records, one of them above a line
\* of the original file
C5_Witness ==
    /\ pc = "done"
    /\ \E p, q \in 1..Len(origin) :
        /\ p < q
        /\ origin[p].kind = "entry"
        /\ origin[q].kind = "file"
        /\ \E r \in 1..Len(origin) :
            origin[r].kind = "entry" /\ origin[r].section # origin[p].section

\* insert_entries is called in this step
InsertCalled ==
    /\ pc = "insert"
    /\ sec_i <= Len(entries)
    /\ Len(entries[sec_i].entries) > 0
    /\ sec_i' = sec_i + 1

\* C6: when insert_entries is called for a section the document has no
\* marker of, exactly one marker line ;section=<name> is appended at the end
\* of the file and the candidates the duplicate filter keeps follow directly
\* after it in their given order; when the document has a marker of the
\* section, no marker line is added.
C6_NewSectionAppended ==
    [][InsertCalled =>
        IF HasMarker(file_lines, entries[sec_i].section)
        THEN MarkerNames(file_lines') = MarkerNames(file_lines)
        ELSE file_lines' =
                file_lines
                \o <<CsvCommentAttribute(SECTION_KEY, entries[sec_i].section)>>
                \o SelectSeq(entries[sec_i].entries,
                             LAMBDA e : e.key_str \notin str_keys)]_vars

\* C6's case: a marker was appended and two kept candidates follow it
C6_Witness ==
    \E p \in 1..Len(origin) :
        /\ origin[p].kind = "marker"
        /\ p + 2 <= Len(origin)
        /\ origin[p + 1].kind = "entry"
        /\ origin[p + 2].kind = "entry"
        /\ file_lines[p + 1].key_str # file_lines[p + 2].key_str

(***************************************************************************)
(* Claims about the output document (checked under SpecCsv)                *)
(***************************************************************************)

\* the sub-space the document resolves to: the header's when it declares
\* one, else the one of the content
ResolvedSubspace(input) ==
    IF input.header_mod_id_space # None
    THEN input.header_mod_id_space
    ELSE input.content_mod_id_space

CompleteIds(input) ==
    {input.entries_complete[i].id : i \in 1..Len(input.entries_complete)}

IsVanillaId(id) == id < MOD_ID_RANGE_start \/ id >= MOD_ID_RANGE_stop

\* the first id of the block of sub-space
BlockStart(space) == MOD_ID_RANGE_start + The(space) * ID_SPACE_SIZE

\* the complete records of input whose id lies in the block of sub-space
InBlock(input, space) ==
    {i \in 1..Len(input.entries_complete) :
        /\ input.entries_complete[i].id >= BlockStart(space)
        /\ input.entries_complete[i].id < BlockStart(space) + ID_SPACE_SIZE}

\* C7: the ids prepare_output_csv synthesizes are pairwise distinct, none is
\* the id of a complete record of the document, and (when the abbreviated
\* records and the complete records of the block are at most 1000) all lie
\* in the block of the resolved sub-space.
C7_AllocatedIdsFree ==
    csv_pc = "prepared" =>
        /\ Distinct(allocated)
        /\ \A i \in 1..Len(allocated) : allocated[i] \notin CompleteIds(input_doc)
        /\ allocated # <<>> =>
            /\ ResolvedSubspace(input_doc) # None
            /\ (Len(input_doc.entries_abbrev)
                    + Cardinality(InBlock(input_doc, ResolvedSubspace(input_doc)))
                    <= ID_SPACE_SIZE) =>
                \A i \in 1..Len(allocated) :
                    /\ allocated[i] >= BlockStart(ResolvedSubspace(input_doc))
                    /\ allocated[i] < BlockStart(ResolvedSubspace(input_doc)) + ID_SPACE_SIZE

\* C7's case: two abbreviated records got ids, with an id of a complete
\* record passed over between them
C7_Witness ==
    /\ csv_pc = "prepared"
    /\ Len(allocated) >= 2
    /\ allocated[2] > allocated[1] + 1
    /\ allocated[1] + 1 \in CompleteIds(input_doc)

\* C8: the record list of the output has one completion (same key and text)
\* of each abbreviated record and every complete record unchanged, and no
\* other record.
C8_NoRecordLost ==
    csv_pc = "prepared" =>
        /\ Len(output_doc.entries)
              = Len(input_doc.entries_abbrev) + Len(input_doc.entries_complete)
        /\ \A i \in 1..Len(input_doc.entries_abbrev) :
              \E j \in 1..Len(output_doc.entries) :
                  /\ output_doc.entries[j].key_str = input_doc.entries_abbrev[i].key_str
                  /\ output_doc.entries[j].text = input_doc.entries_abbrev[i].text
                  /\ output_doc.entries[j].id \notin CompleteIds(input_doc)
        /\ \A i \in 1..Len(input_doc.entries_complete) :
              \E j \in 1..Len(output_doc.entries) :
                  output_doc.entries[j] = input_doc.entries_complete[i]

\* C9: the id_space of the output is None when the input has vanilla
\* records; when it has none, it is the header's sub-space when declared,
\* else the sub-space of the content (so a document without vanilla records
\* that resolves to a sub-space never has id_space None).
C9_OutputIdSpace ==
    csv_pc = "prepared" =>
        LET vanilla == \E i \in 1..Len(input_doc.entries_complete) :
                          IsVanillaId(input_doc.entries_complete[i].id)
        IN  /\ vanilla => output_doc.id_space = None
            /\ ~vanilla => output_doc.id_space = ResolvedSubspace(input_doc)

\* C10: the record list of the output is non-decreasing by id.
C10_SortedById ==
    csv_pc = "prepared" =>
        \A i \in 1..(Len(output_doc.entries) - 1) :
            output_doc.entries[i].id <= output_doc.entries[i + 1].id

\* C10's case: the complete records come in decreasing order in the file and
\* an abbreviated record got an id
C10_Witness ==
    /\ csv_pc = "prepared"
    /\ allocated # <<>>
    /\ Len(input_doc.entries_complete) >= 2
    /\ input_doc.entries_complete[1].id > input_doc.entries_complete[2].id

\* the smallest id from lo on that is not in used
FirstFree(lo, used) ==
    CHOOSE n \in lo..(lo + Cardinality(used)) :
        /\ n \notin used
        /\ \A m \in lo..(n - 1) : m \in used

\* C11: with base the first id of the block of the resolved sub-space, the
\* i-th abbreviated record (in file order) receives the smallest id >= base
\* that is not the id of a complete record and is greater than the ids given
\* to the abbreviated records before it.
C11_FirstFreeInFileOrder ==
    (csv_pc = "prepared" /\ ResolvedSubspace(input_doc) # None) =>
        /\ Len(allocated) = Len(input_doc.entries_abbrev)
        /\ \A i \in 1..Len(allocated) :
              allocated[i] =
                  FirstFree(IF i = 1 THEN BlockStart(ResolvedSubspace(input_doc))
                                     ELSE allocated[i - 1] + 1,
                            CompleteIds(input_doc))

(***************************************************************************)
(* Claims about reading the input document (checked under SpecCsv)         *)
(***************************************************************************)

\* what the file being encoded holds, line by line (1-based line numbers)
FileLines == read_lines(csv_text)

ContentLines == {n \in 1..Len(FileLines) : ~IsCommentLine(FileLines[n])}

FileCompleteLines == {n \in ContentLines : parse_entry(FileLines[n]).tag = "complete"}

MalformedLines == {n \in ContentLines : parse_entry(FileLines[n]).tag = "error"}

FileHeader == read_header(FileLines, read_target_lang(csv_name))


FileCompleteIds == {parse_entry(FileLines[n]).id : n \in FileCompleteLines}

\* what the checks of read_content meet in the file, from the parse of each
\* of its lines and its header: records_read says that the header is good
\* and every content line parses, duplicate_ids that two complete records
\* carry the same id, spaces is the set of the sub-spaces of the complete
\* records of the mod range
FileFactsOf(lines, parsed, header) ==
    LET complete == {n \in 1..Len(lines) :
                        ~IsCommentLine(lines[n]) /\ parsed[n].tag = "complete"}
        ids == {parsed[n].id : n \in complete}
    IN  [records_read |->
            /\ header.ok
            /\ \A n \in 1..Len(lines) :
                  IsCommentLine(lines[n]) \/ parsed[n].tag # "error",
         declared |-> header.ok /\ header.header_mod_id_space # None,
         header_space |-> IF header.ok THEN header.header_mod_id_space ELSE None,
         has_abbrev |->
            \E n \in 1..Len(lines) :
                ~IsCommentLine(lines[n]) /\ parsed[n].tag = "abbrev",
         duplicate_ids |-> Cardinality(ids) < Cardinality(complete),
         spaces |-> {(id - MOD_ID_RANGE_start) \div ID_SPACE_SIZE :
                        id \in {i \in ids : ~IsVanillaId(i)}}]

FileFacts ==
    FileFactsOf(FileLines, [n \in 1..Len(FileLines) |-> parse_entry(FileLines[n])],
                FileHeader)

DUPLICATE_IDS_ERROR == "There are multiple entries with the same id"

\* C12: a document in which an id is carried by two or more complete
\* records fails to parse (with the duplicate-id error once its lines are
\* read); so the ids of entries_complete of a parsed document are pairwise
\* distinct.
C12_DuplicateIdsRejected ==
    csv_pc # "start" =>
        \E file \in {FileFacts} :
        /\ file.duplicate_ids => ~input_doc.ok
        /\ (file.duplicate_ids /\ file.records_read) =>
              input_doc.error = DUPLICATE_IDS_ERROR
        /\ input_doc.ok =>
              \A m, n \in 1..Len(input_doc.entries_complete) :
                  m # n => input_doc.entries_complete[m].id
                              # input_doc.entries_complete[n].id

\* C12's case: one id carried by exactly two complete records of a file
\* that has a third complete record
C12_Witness ==
    /\ csv_pc = "failed"
    /\ input_doc.error = DUPLICATE_IDS_ERROR
    /\ Cardinality(FileCompleteLines) = 3
    /\ Cardinality({parse_entry(FileLines[n]).id : n \in FileCompleteLines}) = 2


MULTIPLE_SPACES_ERROR == "There are entries for multiple mod id spaces"

\* C13: a document whose complete records of the mod range map to two or
\* more sub-spaces fails to parse, with an error that names the set of
\* sub-spaces; in a parsed document every complete record of the mod range
\* is of sub-space content_mod_id_space, which is None exactly when there is
\* no such record.
C13_OneContentSubspace ==
    csv_pc # "start" =>
        \E file \in {FileFacts} :
        /\ Cardinality(file.spaces) >= 2 => ~input_doc.ok
        /\ (Cardinality(file.spaces) >= 2 /\ file.records_read
                /\ ~file.duplicate_ids) =>
              /\ input_doc.error = MULTIPLE_SPACES_ERROR
              /\ input_doc.named_spaces = file.spaces
        /\ input_doc.ok =>
              /\ \A n \in 1..Len(input_doc.entries_complete) :
                    ~IsVanillaId(input_doc.entries_complete[n].id) =>
                        input_doc.content_mod_id_space =
                            Some((input_doc.entries_complete[n].id - MOD_ID_RANGE_start)
                                    \div ID_SPACE_SIZE)
              /\ (input_doc.content_mod_id_space = None) <=>
                    (\A n \in 1..Len(input_doc.entries_complete) :
                        IsVanillaId(input_doc.entries_complete[n].id))

\* C13's case: complete records of sub-spaces 0 and 42 next to a vanilla one
C13_Witness ==
    /\ csv_pc = "failed"
    /\ input_doc.error = MULTIPLE_SPACES_ERROR
    /\ input_doc.named_spaces = {0, 42}
    /\ \E id \in FileCompleteIds : IsVanillaId(id)

SPACE_MISMATCH_ERROR ==
    "Id space in the header and id space used in the entries do not match"

\* C14: a document whose header declares sub-space H and whose complete
\* records derive sub-space C fails to parse when H # C, with an error that
\* names both values, for every H (0 included), and parses when H = C.
C14_HeaderMatchesContent ==
    csv_pc # "start" =>
        \E file \in {FileFacts} :
        (file.declared /\ Cardinality(file.spaces) = 1) =>
            LET H == The(file.header_space)
                C == The(file.spaces)
            IN  /\ H # C => ~input_doc.ok
                /\ (H # C /\ file.records_read /\ ~file.duplicate_ids) =>
                      /\ input_doc.error = SPACE_MISMATCH_ERROR
                      /\ input_doc.named_pair = <<H, C>>
                /\ (H = C /\ file.records_read /\ ~file.duplicate_ids) =>
                      input_doc.ok

\* C14's case: the header declares sub-space 0 and the records are of
\* sub-space 42
C14_Witness ==
    /\ csv_pc = "failed"
    /\ input_doc.error = SPACE_MISMATCH_ERROR
    /\ input_doc.named_pair = <<0, 42>>

NO_SPACE_ERROR == "No id space was provided to complete abbreviated entries"

\* C15: a document with an abbreviated record and neither a sub-space
\* declared in the header nor one derived from the content fails to parse;
\* one with an abbreviated record and a declared sub-space (0 included) or
\* a derived one parses.
C15_AbbreviatedNeedSubspace ==
    csv_pc # "start" =>
        \E file \in {FileFacts} :
        file.has_abbrev =>
            /\ (~file.declared /\ file.spaces = {}) => ~input_doc.ok
            /\ (~file.declared /\ file.spaces = {} /\ file.records_read
                    /\ ~file.duplicate_ids) =>
                  input_doc.error = NO_SPACE_ERROR
            /\ (/\ file.declared \/ file.spaces # {}
                /\ file.records_read
                /\ ~file.duplicate_ids
                /\ Cardinality(file.spaces) <= 1
                /\ (file.declared /\ file.spaces # {}) =>
                      file.header_space = file.spaces) =>
                  input_doc.ok

\* C15's case: an abbreviated record, no header attribute, and a vanilla
\* record as the only complete one
C15_Witness ==
    /\ csv_pc = "failed"
    /\ input_doc.error = NO_SPACE_ERROR
    /\ FileCompleteLines # {}

READ_LINE_ERROR == "Failed to read line"

\* C16: when the first malformed content line of a file is its n-th line
\* (counting from 1), parsing stops at that line with the line error, and
\* the message names line n.
C16_ErrorNamesLine ==
    (csv_pc # "start" /\ FileHeader.ok /\ MalformedLines # {}) =>
        /\ ~input_doc.ok
        /\ input_doc.error = READ_LINE_ERROR
        /\ input_doc.error_line = CHOOSE n \in MalformedLines :
                                      \A m \in MalformedLines : n <= m

(***************************************************************************)
(* Claims about one line (checked under SpecEntry)                         *)
(***************************************************************************)

\* the line as parse_entry looks at it
Stripped == Strip(parse_line)

IsComment == Stripped # <<>> /\ Head(Stripped) = ";"

\* the number of fields of the line: one more than its bars
FieldCount == Cardinality({i \in 1..Len(Stripped) : Stripped[i] = "|"}) + 1

\* the first field: the line up to its first bar
Field0 ==
    SubSeq(Stripped, 1,
           Cardinality({i \in 1..Len(Stripped) :
                           \A j \in 1..i : Stripped[j] # "|"}))

\* a base-10 integer as int() reads it: digits, one sign before them and
\* blanks around allowed
IsBase10(f) ==
    \E a, b \in 1..Len(f) :
        /\ a <= b
        /\ \A i \in 1..Len(f) : (i < a \/ i > b) => f[i] = " "
        /\ \/ \A i \in a..b : IsDigit(f[i])
           \/ /\ a < b
              /\ f[a] \in {"-", "+"}
              /\ \A i \in (a + 1)..b : IsDigit(f[i])

\* C17: parse_entry classifies a line that is no comment by the number of
\* its fields: 2 give an abbreviated record (key, text); 4 give a complete
\* record when the first field is a base-10 integer and the id error
\* otherwise; any other number is the column-count error; an empty or blank
\* line gives no record and no error.
C17_ClassifiedByFieldCount ==
    (parse_pc # "start" /\ ~IsComment) =>
        IF Stripped = <<>>
        THEN parsed_entry.tag = "str"
        ELSE IF FieldCount = 2
        THEN /\ parsed_entry.tag = "abbrev"
             /\ Join(<<parsed_entry.key_str, parsed_entry.text>>, "|") = Stripped
        ELSE IF FieldCount = 4
        THEN IF IsBase10(Field0)
             THEN /\ parsed_entry.tag = "complete"
                  /\ Join(<<Field0, parsed_entry.key_hex, parsed_entry.key_str,
                            parsed_entry.text>>, "|") = Stripped
             ELSE parsed_entry.tag = "error" /\ parsed_entry.what = "id"
        ELSE /\ parsed_entry.tag = "error"
             /\ parsed_entry.what = "columns"
             /\ parsed_entry.got = FieldCount

\* C17's case: a line of four fields whose first field is no integer
C17_Witness ==
    /\ parse_pc = "parsed"
    /\ FieldCount = 4
    /\ ~IsBase10(Field0)
    /\ parsed_entry.tag = "error"
    /\ parsed_entry.what = "id"

\* C18: id_space() of a complete record returns 'vanilla' exactly when the
\* id is outside [2110000000, 2120000000), and otherwise
\* (id - 2110000000) div 1000, a number of 0..9999.
C18_SubspacePartition ==
    parse_pc = "classified" =>
        LET id == parsed_entry.id
            outside == id < 2110000000 \/ id >= 2120000000
        IN  /\ (entry_id_space = None) <=> outside
            /\ ~outside =>
                  /\ entry_id_space = Some((id - 2110000000) \div 1000)
                  /\ The(entry_id_space) \in 0..9999

\* C18's case: the last id of the mod range, of the last sub-space
C18_Witness ==
    /\ parse_pc = "classified"
    /\ parsed_entry.id = 2119999999
    /\ entry_id_space = Some(9999)

(***************************************************************************)
(* Claims about the languages of the output (checked under SpecLang)       *)
(***************************************************************************)

\* the parts of the file's name without the extension
NameParts == Front(CHOOSE parts \in LangNameParts : Join(parts, ".") = csv_name)

IsLang(part) == \E l \in 1..Len(ALL_LANGS) : ALL_LANGS[l] = part

\* the language of the file's name: its first part that is a language
NameLangs == {i \in 1..Len(NameParts) : IsLang(NameParts[i])}

NameLang == NameParts[CHOOSE i \in NameLangs : \A j \in NameLangs : i <= j]

\* the lines of the header: the comment lines before the first other line
HeaderLineNumbers ==
    {n \in 1..Len(FileLines) : \A m \in 1..n : Head(FileLines[m]) = ";"}

\* the header lines that are a language attribute (blanks aside)
MetaLineNumbers ==
    {n \in HeaderLineNumbers :
        \E v \in LangMetas \cup {<<"c", "z">>} :
            SelectSeq(FileLines[n], LAMBDA c : c # " ") = MetaLine(v)}

\* the value of the attribute: what stands between the '=' and the ']'
MetaValue(n) ==
    CHOOSE v \in LangMetas \cup {<<"c", "z">>} :
        SelectSeq(FileLines[n], LAMBDA c : c # " ") = MetaLine(v)

\* the attribute of the header (the last one when it gives several)
HeaderMeta == MetaValue(CHOOSE n \in MetaLineNumbers : \A m \in MetaLineNumbers : m <= n)

ExpectedMeta ==
    IF MetaLineNumbers # {} THEN HeaderMeta
    ELSE IF NameLangs # {} THEN ALL_LANGS_META(NameLang)
    ELSE EN

ExpectedTargetLang ==
    IF NameLangs # {} THEN NameLang
    ELSE IF MetaLineNumbers # {} /\ HeaderMeta # CLEARTEXT THEN HeaderMeta
    ELSE EN

\* C19: the language-metadata tag of the output is the attribute of the
\* header when there is one, else the table's value of the language of the
\* file name, else 'en'; its target language is the first part of the file
\* name (extension aside) that is a language, else the tag when there is one
\* and it is not 'cleartext', else 'en'.
C19_LanguageResolution ==
    csv_pc = "prepared" =>
        /\ output_doc.header_lang_meta = ExpectedMeta
        /\ output_doc.target_lang = ExpectedTargetLang

\* C19's case: the name gives no language and the header says 'cleartext',
\* with another language attribute after the record
C19_Witness ==
    /\ csv_pc = "prepared"
    /\ NameLangs = {}
    /\ MetaLineNumbers # {}
    /\ HeaderMeta = CLEARTEXT
    /\ Len(FileLines) > Cardinality(HeaderLineNumbers) + 1
    /\ output_doc.target_lang = EN

(***************************************************************************)
(* Claims about save_or_merge_abbreviated_entries (checked under           *)
(* SpecSaveOrMerge)                                                        *)
(***************************************************************************)

\* the line of the fresh document where the marker of section i stands:
\* after the placeholder and the blocks of the sections before
RECURSIVE MarkerAt(_)
MarkerAt(i) ==
    IF i = 1 THEN 2 ELSE MarkerAt(i - 1) + 1 + Len(entries[i - 1].entries)

\* text is the fresh document of the dict
IsFreshDocument(text) ==
    /\ Len(text) = MarkerAt(Len(entries)) + Len(entries[Len(entries)].entries)
    /\ text[1] = <<";", "i", "d", "s", "p", "a", "c", "e", "=", "?", "?", "?", "?">>
    /\ \A i \in 1..Len(entries) :
          /\ text[MarkerAt(i)]
                = <<";", "s", "e", "c", "t", "i", "o", "n", "=">> \o entries[i].section
          /\ \A k \in 1..Len(entries[i].entries) :
                text[MarkerAt(i) + k]
                    = entries[i].entries[k].key_str \o <<"|">> \o entries[i].entries[k].text

\* C20: on a path that does not exist no merge is done and the file written
\* is the placeholder header, then for each section of the dict in order
\* (the empty ones too) its marker and its records; on a path that exists
\* the call merges and the file is never written from scratch.
C20_SaveOrMerge ==
    /\ (history[1] = NoFile /\ Len(history) >= 2) =>
          IsFreshDocument(history[2])
    /\ pc = "saved" =>
          /\ history[1] = NoFile
          /\ Len(history) = 2
          /\ disk = history[2]
          /\ file_lines = <<>>
    /\ history[1] # NoFile =>
          /\ pc # "saved"
          /\ \A k \in 2..Len(history) : ~IsFreshDocument(history[k])
          /\ pc = "done" =>
                /\ disk = save_text(file_lines)
                /\ IsSubseq(orig_lines, file_lines)

\* C20's case: a fresh document of a dict with two records for the first
\* section and none for the second
C20_Witness ==
    /\ pc = "saved"
    /\ Len(entries[1].entries) = 2
    /\ entries[2].entries = <<>>
    /\ entries[3].entries # <<>>

(***************************************************************************)
(* Claims about the writes of the merge (checked under SpecMerge)          *)
(***************************************************************************)

\* C21: the merge writes the target file once, after the whole file has been
\* read and the insertions of every section have been applied; when reading
\* fails the call raises and the file is left exactly as it was.
C21_WrittenOnceAtTheEnd ==
    [][/\ (disk' # disk \/ history' # history) =>
            /\ pc = "insert"
            /\ sec_i > Len(entries)
            /\ pc' = "done"
            /\ disk' = save_text(file_lines)
            /\ history' = Append(history, disk')
       /\ pc' = "failed" =>
            /\ pc = "start"
            /\ disk' = disk
            /\ disk' = history[Len(history)]
            /\ history' = history]_vars

\* C21's case: reading failed at a line after the first of a file that was
\* written by a merge before
C21_Witness ==
    /\ pc = "failed"
    /\ error.line >= 1
    /\ disk = history[Len(history)]

(***************************************************************************)
(* Claims about the run of the encoder (checked under SpecEncode and       *)
(* SpecEncodeFair)                                                         *)
(***************************************************************************)

\* the encoder ran and exited with a status other than 0
EncoderFailed == returncode # None /\ returncode # Some(0)

\* C22: the encoder is run with the flag that disables the id check exactly
\* when the id_space of the output document is None, and with -i <id_space>
\* otherwise; when the encoder exits with a status other than 0 the run ends
\* with the exception and no <lang>.w3strings file is put in the output
\* directory.
C22_EncoderInvocation ==
    /\ cmd # None =>
          /\ (The(cmd).disable_id_check) <=> (output_doc.id_space = None)
          /\ (~The(cmd).disable_id_check) => (The(cmd).i = output_doc.id_space)
          /\ (The(cmd).disable_id_check) => (The(cmd).i = None)
    /\ EncoderFailed =>
          /\ csv_pc \in {"encoder_failed", "raised"}
          /\ output_dir.w3strings = {}
    /\ csv_pc = "done" =>
          /\ returncode = Some(0)
          /\ \A n \in 1..Len(ALL_LANGS) :
                ALL_LANGS[n] \in output_dir.w3strings
                    <=> (args_lang \in {ALL, ALL_LANGS[n]})

\* C22's case: the output document has the id space 0, the encoder was run
\* with -i 0 and failed, and the run ended with the exception
C22_Witness ==
    /\ csv_pc = "raised"
    /\ EncoderFailed
    /\ output_doc.id_space = Some(0)
    /\ The(cmd).i = Some(0)

\* C24: with args.keep_csv the prepared CSV is copied to the output
\* directory once the encoder has been run, whether it succeeded or failed;
\* without it the prepared CSV is never in the output directory; and a run
\* that fails before the encoder is reached (the output path is a file, the
\* input does not parse) puts no file in the output directory.
C24_KeepCsv ==
    /\ [](output_dir.csv => (args_keep_csv /\ returncode # None))
    /\ [](csv_pc \in {"failed", "rejected"} => output_dir = NoOutput)
    /\ [](csv_pc \in {"done", "raised"} => (output_dir.csv <=> args_keep_csv))
    /\ ((args_keep_csv /\ returncode # None) ~> output_dir.csv)

\* C24's case: the flag is set, the encoder failed, and the prepared CSV is
\* the one file of the output directory
C24_Witness ==
    /\ csv_pc = "raised"
    /\ args_keep_csv
    /\ EncoderFailed
    /\ output_dir = [w3strings |-> {}, csv |-> TRUE]

(***************************************************************************)
(* Claims about directory_context_work (checked under SpecDirectory)       *)
(***************************************************************************)

\* the keys of the candidates of section i of the dict, in order
CandidateKeys(i) == [n \in 1..Len(entries[i].entries) |-> entries[i].entries[n].key_str]

KeySet(keys) == {keys[n] : n \in 1..Len(keys)}

\* C23: the three candidate lists given to the merge have no key twice and
\* no key in common: a key found in several source types is a candidate of
\* the first only of menu, bundle and scripts where it was found.
C23_DisjointBySourcePriority ==
    pc # "collect" =>
        /\ Len(entries) = 3
        /\ entries[1].section = COMMENT_SECTION_MENU
        /\ entries[2].section = COMMENT_SECTION_BUNDLE
        /\ entries[3].section = COMMENT_SECTION_SCRIPTS
        /\ \A i \in 1..3 : Distinct(CandidateKeys(i))
        /\ \A i, j \in 1..3 :
              i # j => KeySet(CandidateKeys(i)) \cap KeySet(CandidateKeys(j)) = {}
        /\ KeySet(CandidateKeys(1)) = KeySet(menu_keys)
        /\ KeySet(CandidateKeys(2)) = KeySet(bundle_keys) \ KeySet(menu_keys)
        /\ KeySet(CandidateKeys(3)) =
              KeySet(script_keys) \ (KeySet(menu_keys) \cup KeySet(bundle_keys))

\* C23's case: one key was found in all three source types, the scripts
\* gave a key twice, and the file was written
C23_Witness ==
    /\ pc \in {"saved", "done"}
    /\ KeySet(menu_keys) \cap KeySet(bundle_keys) \cap KeySet(script_keys) # {}
    /\ ~Distinct(script_keys)

=============================================================================
